---- MODULE Spec2Model ----
(***************************************************************************)
(* Generation-request orchestration and session-state machine of the       *)
(* photo studio skill: scripts/interaction.py (InteractionManager),        *)
(* scripts/image_generator.py (ImageGenerator), scripts/main.py            *)
(* (command_generate) and scripts/scenario_handlers.py.                    *)
(***************************************************************************)
EXTENDS Integers, Sequences, FiniteSets, TLC

(* ------------------------------ bounds --------------------------------- *)
MaxUnits == 2      \* longest unit list / largest --count of one batch
MaxStyles == 2     \* longest style list handed to generate_portrait_images
MaxPhotos == 3     \* most reference photos handed to one generator

(* -------------------------- program constants -------------------------- *)
DefaultImageCount == 5   \* "image_count": 5 of the default document
ImageWidth == 1024       \* config.py: "image_width": 1024
ImageHeight == 1024      \* config.py: "image_height": 1024
MockWidth == 1440        \* _generate_mock_response: width, height = 1440, 2560
MockHeight == 2560

VARIABLES
  disk,              \* content of temp/generation_state.json
  proc,              \* the command: "new" (not started), "up", "down" (ended)
  current_state,     \* InteractionManager.current_state (in memory)
  api_key,           \* ImageGenerator.api_key is set (ARK_API_KEY present)
  mock_mode,         \* ImageGenerator.mock_mode
  pc,                \* position of the running command
  route,             \* which orchestration path is running
  units,             \* names of the units of the batch, in caller order
  nstyles,           \* len(styles) of generate_portrait_images
  photo_ok,          \* open(reference photo, "rb") succeeds
  i,                 \* loop index of the batch
  generated_images,  \* local list generated_images (succeeded) of the batch
  failed,            \* local list failed_characters / failed_generations
  calls,             \* unit indices the generation step was invoked for
  sleeps,            \* number of time.sleep(2) pauses of the batch
  lastResult,        \* outcome of the latest generation call
  last,              \* latest session-state operation (for frame properties)
  photos,            \* reference photos of the batch, in input order
  image_dir,         \* files this command has written to output/images
  temp,              \* entries of the temp directory besides the state file
  lastEnv,           \* what the service answered to the latest request
  lastMock,          \* the image the latest mock response produced
  lastRequest,       \* prompt clauses and payload of the latest call
  lastCompose,       \* outcome of the latest template composition
  lastCleanup,       \* the latest cleanup of the temp directory
  call,              \* one call of a handler or helper: its input, its outcome
  inst,              \* the orchestrator instances that share the state file
  saver              \* the instance that wrote the state file last (0: none)

sideVars == <<call, inst, saver>>
restVars == <<photos, image_dir, temp, lastEnv, lastMock, lastRequest,
              lastCompose, lastCleanup, call, inst, saver>>
batchVars == <<pc, route, units, nstyles, photo_ok, i, generated_images,
               failed, calls, sleeps, lastResult, photos, image_dir,
               lastEnv, lastMock, lastRequest, lastCompose>>
vars == <<disk, proc, current_state, api_key, mock_mode, pc, route, units,
          nstyles, photo_ok, i, generated_images, failed, calls, sleeps,
          lastResult, last, photos, image_dir, temp, lastEnv, lastMock,
          lastRequest, lastCompose, lastCleanup, call, inst, saver>>

(* ------------------------- session document ---------------------------- *)
SessionKeys == {"step", "user_photo", "selected_characters", "image_count",
                "generated_images", "image_order", "confirmed"}

\* the dict literal returned by _load_state; Python None is "None"
DefaultState ==
  [step |-> "initial", user_photo |-> "None", selected_characters |-> <<>>,
   image_count |-> DefaultImageCount, generated_images |-> <<>>,
   image_order |-> <<>>, confirmed |-> FALSE]

\* a well-formed JSON object that is not a session document: {"note": "x"}
OtherJson == [note |-> "x"]

\* dict item assignment d[k] = v
Put(d, k, v) == [f \in (DOMAIN d) \cup {k} |-> IF f = k THEN v ELSE d[f]]

\* dict.get(k): None / missing are falsy
Get(d, k, dflt) == IF k \in DOMAIN d THEN d[k] ELSE dflt

IsSessionDoc(d) == SessionKeys \subseteq DOMAIN d

\* file states: absent; text that is not JSON (empty, truncated);
\* bytes that are not UTF-8; a JSON document
FileAbsent == [kind |-> "absent", doc |-> DefaultState]
FileNotJson == [kind |-> "notjson", doc |-> DefaultState]
FileNotUtf8 == [kind |-> "notutf8", doc |-> DefaultState]

\* json.dump(current_state, f): the documents here hold only strings, lists,
\* booleans and integers, which json.load gives back unchanged
json_dump(d) == [kind |-> "json", doc |-> d]

\* InteractionManager._load_state: only json.JSONDecodeError is caught;
\* a UnicodeDecodeError propagates, any JSON value is returned as it is
load_state(f) ==
  IF f.kind = "absent" THEN [raised |-> FALSE, state |-> DefaultState]
  ELSE IF f.kind = "notjson" THEN [raised |-> FALSE, state |-> DefaultState]
  ELSE IF f.kind = "notutf8" THEN [raised |-> TRUE, state |-> DefaultState]
  ELSE [raised |-> FALSE, state |-> f.doc]

\* InteractionManager._save_state
save_state(d) == json_dump(d)

\* update_state that writes the file before it assigns the field
update_state_stale(d, key, value) ==
  [mem |-> Put(d, key, value), file |-> save_state(d)]

\* InteractionManager.update_state: the pair <<memory, file>> afterwards
update_state(d, key, value) ==
  [mem |-> Put(d, key, value), file |-> save_state(Put(d, key, value))]

\* record of the latest session-state operation: its name, the key and value
\* it wrote, the document before it (kept for update_state only), whether it
\* raised
NoOp == [op |-> "none", key |-> "none", value |-> 0,
         before |-> DefaultState, raised |-> FALSE]

Rec(op, key, value, before, raised) ==
  [op |-> op, key |-> key, value |-> value,
   before |-> IF op = "update_state" THEN before ELSE DefaultState,
   raised |-> raised]

(* --------------------------- generation call -------------------------- *)
MinSize == 512        \* validate_image: w < 512 or h < 512 is rejected
BlurThreshold == 30   \* validate_image: fm < 30 is rejected

\* what the remote service and the network answer to one request
Responses == {"timeout", "transport", "http_error", "bad_json", "top_error",
              "no_data", "elem_error", "no_payload", "b64_json", "url"}

\* the image the service returned, as cv2 sees it once written: one that
\* is exactly at the limits, and the ones that miss a single limit
GoodImage == [decodable |-> TRUE, w |-> MinSize, h |-> MinSize,
              fm |-> BlurThreshold]
Images == {GoodImage,
           [GoodImage EXCEPT !.decodable = FALSE],
           [GoodImage EXCEPT !.w = MinSize - 1],
           [GoodImage EXCEPT !.h = MinSize - 1],
           [GoodImage EXCEPT !.fm = BlurThreshold - 1]}

\* environment of one call: response shape, outcome of the download GET,
\* the returned image (only looked at when an image is written)
Envs == { e \in [resp : Responses, get_ok : BOOLEAN, img : Images] :
            /\ (e.resp # "url" => e.get_ok)
            /\ (~(e.resp = "b64_json" \/ (e.resp = "url" /\ e.get_ok))
                  => e.img = GoodImage) }

Result(status, reason, p, g, wrote, validated, diag) ==
  [status |-> status, reason |-> reason, posts |-> p, gets |-> g,
   wrote |-> wrote, validated |-> validated, diag |-> diag]

NoResult == Result("none", "none", 0, 0, FALSE, FALSE, FALSE)

\* validate_image with "fm <= 30" for "fm < 30"
validate_image_strict(mock, img) ==
  IF mock THEN TRUE
  ELSE IF ~img.decodable THEN FALSE
  ELSE IF img.w < MinSize \/ img.h < MinSize THEN FALSE
  ELSE IF img.fm <= BlurThreshold THEN FALSE
  ELSE TRUE

\* validate_image that accepts whatever was written
validate_image_lenient(mock, img) == TRUE

\* ImageGenerator.validate_image
validate_image(mock, img) ==
  IF mock THEN TRUE
  ELSE IF ~img.decodable THEN FALSE
  ELSE IF img.w < MinSize \/ img.h < MinSize THEN FALSE
  ELSE IF img.fm < BlurThreshold THEN FALSE
  ELSE TRUE

\* validate_image prints a warning for a small or blurry image only
validate_prints(img) ==
  img.decodable /\ (img.w < MinSize \/ img.h < MinSize \/ img.fm < BlurThreshold)

\* ImageGenerator._generate_mock_response: a sample copy or a synthesized
\* image, always a path
generate_mock_response ==
  Result("ok", "none", 0, 0, TRUE, FALSE, FALSE)

\* the try-block of _execute_api_request, from requests.post on; the same
\* block of generate_single_image differs in two prints (inSingle)
handle_response(e, inSingle) ==
  IF e.resp = "timeout" THEN
    Result("fail", "Timeout", 1, 0, FALSE, FALSE, TRUE)
  ELSE IF e.resp \in {"transport", "http_error"} THEN
    Result("fail", "TransportError", 1, 0, FALSE, FALSE, TRUE)
  ELSE IF e.resp = "bad_json" THEN
    Result("fail", "MalformedResponse", 1, 0, FALSE, FALSE, TRUE)
  ELSE IF e.resp = "top_error" THEN
    Result("fail", "RemoteError", 1, 0, FALSE, FALSE, TRUE)
  ELSE IF e.resp = "no_data" THEN
    Result("fail", "MalformedResponse", 1, 0, FALSE, FALSE, TRUE)
  ELSE IF e.resp = "elem_error" THEN
    Result("fail", "RemoteError", 1, 0, FALSE, FALSE, TRUE)
  ELSE IF e.resp = "b64_json" THEN
    IF validate_image(FALSE, e.img)
    THEN Result("ok", "none", 1, 0, TRUE, TRUE, FALSE)
    ELSE Result("fail", "QualityRejected", 1, 0, TRUE, TRUE, TRUE)
  ELSE IF e.resp = "url" THEN
    IF ~e.get_ok
    THEN Result("fail", "TransportError", 1, 1, FALSE, FALSE, TRUE)
    ELSE IF validate_image(FALSE, e.img)
    THEN Result("ok", "none", 1, 1, TRUE, TRUE, FALSE)
    ELSE Result("fail", "QualityRejected", 1, 1, TRUE, TRUE,
                validate_prints(e.img))
  ELSE Result("fail", "MalformedResponse", 1, 0, FALSE, FALSE, inSingle)

\* ImageGenerator._execute_api_request
execute_api_request(key, e) ==
  IF ~key THEN Result("fail", "MissingCredential", 0, 0, FALSE, FALSE, TRUE)
  ELSE handle_response(e, FALSE)

\* ImageGenerator.generate_single_image: the photo is opened outside the
\* try-block; show_progress divides by current_state["image_count"] inside it
generate_single_image(mock, key, photoOk, st, e) ==
  IF mock THEN generate_mock_response
  ELSE IF ~key THEN
    Result("fail", "MissingCredential", 0, 0, FALSE, FALSE, TRUE)
  ELSE IF ~photoOk THEN
    Result("raise", "InvalidReferenceImage", 0, 0, FALSE, FALSE, FALSE)
  ELSE IF "image_count" \in DOMAIN st /\ st.image_count = 0 THEN
    Result("fail", "Unexpected", 0, 0, FALSE, FALSE, TRUE)
  ELSE handle_response(e, TRUE)

\* ImageGenerator._generate_with_single_photo, _generate_with_multiple_photos
\* and _generate_with_multiple_photos_and_prompts: the photos are encoded
\* before _execute_api_request looks at the credential
generate_with_photos(mock, key, photoOk, e) ==
  IF mock THEN generate_mock_response
  ELSE IF ~photoOk THEN
    Result("raise", "InvalidReferenceImage", 0, 0, FALSE, FALSE, FALSE)
  ELSE execute_api_request(key, e)

\* no request has reached the service
NoEnv == [resp |-> "none", get_ok |-> TRUE, img |-> GoodImage]

\* the answers one call can meet: none in mock mode or without a credential,
\* where no request is sent
ServiceEnvs(mock, key) == IF mock \/ ~key THEN {NoEnv} ELSE Envs

\* what _generate_mock_response can find in mock_samples: nothing is looked
\* up outside mock mode
SampleChoices(mock) == IF mock THEN BOOLEAN ELSE {FALSE}

NoMock == [source |-> "none", w |-> 0, h |-> 0, delays |-> 0]

\* the image _generate_mock_response leaves at the output path: a copy of
\* mock_samples/<filename>.jpg when that file exists (its own dimensions,
\* written 0 x 0 here), otherwise a 1440 x 2560 rectangle; the delay of
\* _execute_api_request_mock is never run, no caller reaches that method
mock_image(sample) ==
  IF sample
  THEN [source |-> "sample", w |-> 0, h |-> 0, delays |-> 0]
  ELSE [source |-> "synthesized", w |-> MockWidth, h |-> MockHeight,
        delays |-> 0]

\* generators that hand a list of photos to _generate_with_multiple_photos
\* or _generate_with_multiple_photos_and_prompts
MultiPhoto(r) == r \in {"couple", "family", "free", "fusion"}

\* the "image" field of the payload: the multi-photo helpers always send a
\* list, the single-photo helpers a string, _generate_without_photo none
payload_image(r, ph) ==
  IF MultiPhoto(r) THEN [shape |-> "list", refs |-> ph]
  ELSE IF ph = <<>> THEN [shape |-> "absent", refs |-> <<>>]
  ELSE [shape |-> "scalar", refs |-> <<ph[1]>>]

NotBuilt == [shape |-> "notbuilt", refs |-> <<>>]

\* "Person <person>: ... from input photo #<photo> only"; person 0 is the
\* clause of _build_free_mode_prompt for one photo, which names no person
Clause(person, photo) == [person |-> person, photo |-> photo]

\* the person-extraction clauses of the composed prompt
person_clauses(r, ph) ==
  IF r = "couple" THEN <<Clause(1, 1), Clause(2, 2)>>
  ELSE IF r \in {"family", "fusion"}
  THEN [k \in 1..Len(ph) |-> Clause(k, k)]
  ELSE IF r = "free"
  THEN IF Len(ph) = 1 THEN <<Clause(0, 1)>>
       ELSE [k \in 1..Len(ph) |-> Clause(k, k)]
  ELSE <<>>

NoRequest == [clauses |-> <<>>, image |-> NotBuilt]

\* what one generation call composes: the generators build the prompt
\* before they call a helper; the helper builds the payload once the photos
\* are encoded (generate_single_image: once the credential is there too)
build_request(r, ph, mock, key, photoOk) ==
  [clauses |-> person_clauses(r, ph),
   image |-> IF ~mock /\ photoOk
                /\ (r \in {"all", "wizard", "cli", "handler"} => key)
             THEN payload_image(r, ph) ELSE NotBuilt]

\* open(output_path, "wb") that removes the file of a rejected image
write_output_unlink(dir, path, r) ==
  IF r.wrote /\ r.status = "ok" THEN dir \cup {path} ELSE dir \ {path}

\* open(output_path, "wb"); f.write(...): nothing removes the file again
write_output(dir, path, r) ==
  IF r.wrote THEN dir \cup {path} ELSE dir

(* ------------------------- template composition ------------------------ *)
TemplateKinds == {"edit", "fusion", "series", "poster"}

\* a field the template declares and its prompt_structure names
Fields == [required : BOOLEAN, has_default : BOOLEAN]

\* handle_template_based_common: what of the field reaches field_values
collect_field_value(field, supplied) ==
  IF supplied THEN "value"
  ELSE IF field.has_default THEN "default"
  ELSE IF ~field.required THEN "empty"
  ELSE "missing"

\* prompt_structure.format(**field_values_with_default): KeyError in
\* generate_edit_images, generate_fusion_images and generate_series_images
\* when the field is missing; generate_poster_images puts
\* field.get('default', '') in its place first
compose(kind, field, fv) ==
  IF kind = "poster"
  THEN [raised |-> FALSE,
        filled |-> IF fv # "missing" THEN fv
                   ELSE IF field.has_default THEN "default" ELSE "empty"]
  ELSE IF fv = "missing" THEN [raised |-> TRUE, filled |-> "missing"]
  ELSE [raised |-> FALSE, filled |-> fv]

NoCompose == [kind |-> "none", field |-> [required |-> FALSE,
                                           has_default |-> FALSE],
              supplied |-> FALSE, raised |-> FALSE, filled |-> "none"]

(* ------------------------------ temp area ------------------------------ *)
\* entries of the temp directory besides generation_state.json
ProcessedPhoto == [name |-> "processed_user_photo.jpg", is_file |-> TRUE]
Subdir == [name |-> "cache", is_file |-> FALSE]

\* ImageGenerator.cleanup_temp_files: unlinks every file but the state
\* file; an entry whose unlink raises (locked) is reported and stays
cleanup_temp_files(f, entries, locked) ==
  [file |-> f,
   entries |-> {x \in entries : ~x.is_file \/ x \in locked}]

\* command_cleanup: unlinks every file, the state file among them, and
\* removes every directory
command_cleanup(f, entries, locked, stateLocked) ==
  [file |-> IF stateLocked THEN f ELSE FileAbsent,
   entries |-> {x \in entries : x \in locked}]

\* record of the latest cleanup: which one, the state file and the other
\* entries it found, the entries (and the state file) it could not delete
CleanupRec(op, f, entries, locked, stateLocked) ==
  [op |-> op, file |-> f, entries |-> entries, locked |-> locked,
   state_locked |-> stateLocked]

NoCleanup == CleanupRec("none", FileAbsent, {}, {}, FALSE)

(* ------------------------------ helpers -------------------------------- *)
Min(a, b) == IF a < b THEN a ELSE b

\* the first n names of the catalogue (config.get_characters()[:n], range(n))
FirstUnits(n) == [k \in 1..n |-> k]

\* list[:n]
Take(s, n) == SubSeq(s, 1, Min(n, Len(s)))

Routes == {"all", "portrait", "couple", "family", "free", "wizard", "cli",
           "handler"}

\* routes whose loop calls generate_single_image
UsesSingle(r) == r \in {"all", "wizard", "cli", "handler"}

\* routes that keep a failed list, push generated_images into the session
\* state after a success and snapshot image_order after the loop; the
\* non-interactive celebrity loop of command_generate and
\* handle_celebrity_scenario do none of these
Records(r) == r \in {"all", "portrait", "couple", "family", "free", "wizard"}

\* how many reference photos the callers hand to the generator of route r:
\* couple needs two or more, family and free mode one or more (free mode
\* itself turns an empty list down), the others take one photo
PhotoCounts(r) ==
  IF r = "couple" THEN 2..MaxPhotos
  ELSE IF r = "family" THEN 1..MaxPhotos
  ELSE IF r = "free" THEN 0..MaxPhotos
  ELSE {1}

\* preprocess_user_photo / preprocess_user_photo_with_index, called by the
\* generators before their loop: writes the resized copy into temp when
\* the photo can be read
preprocess_user_photo(r, entries, ok) ==
  IF r \in {"cli", "handler", "wizard"} \/ ~ok THEN entries
  ELSE entries \cup {ProcessedPhoto}

\* "if i < len(characters) - 1: time.sleep(2)" (count - 1 in the count loops)
rate_limit(idx, n) == idx < n - 1

\* generate_portrait_images: "if i < min(count, len(styles)) - 1"
rate_limit_portrait(idx, count, s) == idx < Min(count, s) - 1

\* does the loop of route r pause after iteration idx
Pauses(r, idx, n, s) ==
  IF r = "handler" THEN FALSE
  ELSE IF r = "portrait" THEN rate_limit_portrait(idx, n, s)
  ELSE rate_limit(idx, n)

\* output files named without the index of the iteration
OutputPath_noindex(r, us, s, idx) ==
  IF r \in {"all", "wizard", "cli", "handler"}
  THEN <<"photo_with", us[idx + 1], 0>>
  ELSE <<r, 0, 0>>

\* the output file of iteration idx: <<prefix, name, index>>
OutputPath(r, us, s, idx) ==
  IF UsesSingle(r) THEN <<"photo_with", us[idx + 1], idx>>
  ELSE IF r = "portrait" THEN <<"portrait", (idx % s) + 1, idx>>
  ELSE IF r = "couple" THEN <<"couple_portrait", 0, idx>>
  ELSE IF r = "family" THEN <<"family_portrait", 0, idx>>
  ELSE IF r = "free" THEN <<"free_mode", 0, idx>>
  ELSE <<r, 0, idx>>

\* the name appended to the failed list for iteration idx
FailedName(r, us, s, idx) ==
  IF r = "portrait" THEN (idx % s) + 1 ELSE us[idx + 1]

\* after the loop: current_state["image_order"] = generated_images.copy();
\* _save_state()
finish(d, gi) ==
  [mem |-> Put(d, "image_order", gi),
   file |-> save_state(Put(d, "image_order", gi))]

\* what the user can type at "Enter new order" for n images: any n of the
\* numbers 1..n (repeats included), n numbers that are out of range, one
\* number too few, or something int() rejects
OrderInputs(n) ==
  [parse_ok : {TRUE},
   nums : [1..n -> 1..n]
            \cup {[k \in 1..n |-> k + 1]}
            \cup (IF n > 1 THEN {[k \in 1..(n - 1) |-> k]} ELSE {})]
    \cup {[parse_ok |-> FALSE, nums |-> <<>>]}

\* InteractionManager._reorder_images
reorder_images(image_paths, inp, confirm) ==
  IF ~inp.parse_ok THEN image_paths
  ELSE
    LET new_indices == [k \in 1..Len(inp.nums) |-> inp.nums[k] - 1]
        InRange(idx) == 0 <= idx /\ idx < Len(image_paths)
        valid_indices == SelectSeq(new_indices, InRange)
        new_order == [k \in 1..Len(valid_indices) |->
                        image_paths[valid_indices[k] + 1]]
    IN  IF Len(valid_indices) # Len(image_paths) THEN image_paths
        ELSE IF confirm THEN new_order
        ELSE image_paths

(* ------------------------------- Init ---------------------------------- *)
\* documents earlier invocations of the wizard leave in the state file:
\* after collect_user_inputs; after a batch with one image; after the user
\* confirmed that image
PriorCollected ==
  [step |-> "inputs_collected", user_photo |-> "photo.jpg",
   selected_characters |-> <<1>>, image_count |-> DefaultImageCount,
   generated_images |-> <<>>, image_order |-> <<>>, confirmed |-> FALSE]
PriorGenerated ==
  [step |-> "inputs_collected", user_photo |-> "photo.jpg",
   selected_characters |-> <<1>>, image_count |-> DefaultImageCount,
   generated_images |-> <<(<<"photo_with", 1, 0>>)>>,
   image_order |-> <<(<<"photo_with", 1, 0>>)>>, confirmed |-> FALSE]
PriorConfirmed ==
  [step |-> "images_confirmed", user_photo |-> "photo.jpg",
   selected_characters |-> <<1>>, image_count |-> DefaultImageCount,
   generated_images |-> <<(<<"photo_with", 1, 0>>)>>,
   image_order |-> <<(<<"photo_with", 1, 0>>)>>, confirmed |-> TRUE]

\* the state file as a command finds it: never written, left by an earlier
\* invocation, or damaged out of band
PriorFiles ==
  {FileAbsent, FileNotJson, FileNotUtf8, json_dump(OtherJson),
   json_dump(PriorCollected), json_dump(PriorGenerated),
   json_dump(PriorConfirmed)}

\* the rest of the temp directory as a command finds it: empty, or holding
\* what earlier work left there
PriorTemp == {{}, {ProcessedPhoto, Subdir}}

\* no command has run yet
NoCommand ==
  /\ proc = "new"
  /\ current_state = DefaultState /\ api_key = FALSE /\ mock_mode = FALSE
  /\ pc = "idle" /\ route = "none" /\ units = <<>> /\ nstyles = 1
  /\ photo_ok = TRUE /\ i = 0 /\ generated_images = <<>> /\ failed = <<>>
  /\ calls = <<>> /\ sleeps = <<>> /\ lastResult = NoResult
  /\ last = NoOp
  /\ photos = <<>> /\ image_dir = {}
  /\ lastEnv = NoEnv /\ lastMock = NoMock /\ lastRequest = NoRequest
  /\ lastCompose = NoCompose /\ lastCleanup = NoCleanup

NoCall == [op |-> "none", done |-> FALSE, arg |-> 0, out |-> 0]
NoInst == <<>>

Init ==
  /\ disk \in PriorFiles /\ temp \in PriorTemp
  /\ NoCommand
  /\ call = NoCall /\ inst = NoInst /\ saver = 0

(* ------------------------- process life cycle -------------------------- *)
\* a command starts: InteractionManager.__init__ loads the state file,
\* ImageGenerator.__init__ reads the credential and the mock switch; an
\* exception of _load_state ends the command
Start ==
  /\ proc = "new"
  /\ \E k \in BOOLEAN, m \in BOOLEAN :
       LET r == load_state(disk) IN
         /\ api_key' = k /\ mock_mode' = m
         /\ proc' = IF r.raised THEN "down" ELSE "up"
         /\ current_state' = r.state
         /\ last' = Rec("load", "none", 0, DefaultState, r.raised)
  /\ UNCHANGED disk
  /\ UNCHANGED batchVars
  /\ UNCHANGED <<temp, lastCleanup>>
  /\ UNCHANGED sideVars

(* --------------------------- wizard operations ------------------------- *)
\* the end of collect_user_inputs, were it to start the session afresh
mark_inputs_collected_reset(d) ==
  Put(Put(d, "step", "inputs_collected"), "confirmed", FALSE)

\* collect_user_inputs: self.current_state["step"] = "inputs_collected"
mark_inputs_collected(d) == Put(d, "step", "inputs_collected")

Truthy(d, k) ==
  /\ k \in DOMAIN d
  /\ IF k = "user_photo" THEN d[k] # "None"
     ELSE IF k = "image_count" THEN d[k] # 0
     ELSE d[k] # <<>>

\* InteractionManager.collect_user_inputs
CollectUserInputs ==
  /\ proc = "up" /\ pc = "idle"
  /\ IF ~({"user_photo", "image_count", "selected_characters"}
             \subseteq DOMAIN current_state)
     THEN \* current_state[...] raises KeyError: the command dies
          /\ proc' = "down" /\ current_state' = DefaultState
          /\ last' = Rec("collect_user_inputs", "none", 0, current_state, TRUE)
          /\ UNCHANGED disk
     ELSE \E exists \in BOOLEAN, cnt \in (1..MaxUnits) \cup {DefaultImageCount},
             n \in 1..MaxUnits :
          IF ~Truthy(current_state, "user_photo") /\ ~exists
          THEN \* "File does not exist": return None
               /\ last' = Rec("collect_user_inputs", "none", 0, current_state, FALSE)
               /\ UNCHANGED <<disk, proc, current_state>>
          ELSE LET s1 == IF Truthy(current_state, "user_photo")
                         THEN current_state
                         ELSE Put(current_state, "user_photo", "photo.jpg")
                   s2 == IF Truthy(s1, "image_count") THEN s1
                         ELSE Put(s1, "image_count", cnt)
                   s3 == IF Truthy(s2, "selected_characters") THEN s2
                         ELSE Put(s2, "selected_characters",
                                  Take(FirstUnits(n), s2.image_count))
                   s4 == mark_inputs_collected(s3)
               IN  /\ current_state' = s4
                   /\ disk' = save_state(s4)
                   /\ last' = Rec("collect_user_inputs", "step",
                                  "inputs_collected", current_state,
                                  FALSE)
                   /\ UNCHANGED proc
  /\ UNCHANGED <<api_key, mock_mode>>
  /\ UNCHANGED batchVars
  /\ UNCHANGED <<temp, lastCleanup>>
  /\ UNCHANGED sideVars

\* command_generate, interactive mode, step 1 (photo selection);
\* check_api_keys has let the command through
WizardPhoto ==
  /\ proc = "up" /\ pc = "idle" /\ api_key
  /\ \E exists \in BOOLEAN :
       IF Truthy(current_state, "user_photo")
       THEN /\ pc' = "w_chars"
            /\ last' = NoOp
            /\ UNCHANGED <<disk, proc, current_state>>
       ELSE IF ~exists
       THEN \* "Photo not found": return 1
            /\ proc' = "down" /\ current_state' = DefaultState
            /\ pc' = "idle"
            /\ last' = NoOp
            /\ UNCHANGED disk
       ELSE LET u == update_state(current_state, "user_photo", "photo.jpg")
            IN  /\ current_state' = u.mem /\ disk' = u.file
                /\ pc' = "w_chars"
                /\ last' = Rec("update_state", "user_photo", "photo.jpg",
                               current_state, FALSE)
                /\ UNCHANGED proc
  /\ UNCHANGED <<api_key, mock_mode, route, units, nstyles, photo_ok,
                 i, generated_images, failed, calls, sleeps, lastResult>>
  /\ UNCHANGED restVars

\* command_generate, interactive mode, step 2 (character selection); an
\* unknown menu choice leaves selected_chars empty
WizardCharacters ==
  /\ proc = "up" /\ pc = "w_chars"
  /\ IF Truthy(current_state, "selected_characters")
     THEN /\ last' = NoOp
          /\ UNCHANGED <<disk, current_state>>
     ELSE \E n \in 0..MaxUnits :
            LET u == update_state(current_state, "selected_characters",
                                  FirstUnits(n))
            IN  /\ current_state' = u.mem /\ disk' = u.file
                /\ last' = Rec("update_state", "selected_characters",
                               FirstUnits(n), current_state, FALSE)
  /\ pc' = "w_count"
  /\ UNCHANGED <<proc, api_key, mock_mode, route, units, nstyles,
                 photo_ok, i, generated_images, failed, calls, sleeps,
                 lastResult>>
  /\ UNCHANGED restVars

\* command_generate, interactive mode, step 3 (number of images), up to the
\* start of the generation loop; with no unit the loop body never runs and
\* the summary and the image_order snapshot follow at once
WizardCount ==
  /\ proc = "up" /\ pc = "w_count"
  /\ \E ok \in BOOLEAN, entered \in 0..MaxUnits :
       LET sel == current_state.selected_characters
           asked == ~Truthy(current_state, "image_count")
           count == IF ~asked THEN current_state.image_count
                    ELSE IF entered >= 1 THEN entered ELSE Len(sel)
           u == IF asked
                THEN update_state(current_state, "image_count", count)
                ELSE [mem |-> current_state, file |-> disk]
           us == Take(sel, count)
           f == finish(u.mem, <<>>)
       IN  /\ units' = us /\ photo_ok' = ok
           /\ IF us = <<>>
              THEN /\ current_state' = f.mem /\ disk' = f.file
                   /\ pc' = "done"
                   /\ last' = Rec("finish", "image_order", <<>>,
                                  current_state, FALSE)
              ELSE /\ current_state' = u.mem /\ disk' = u.file
                   /\ pc' = "loop"
                   /\ last' = IF asked
                              THEN Rec("update_state", "image_count", count,
                                       current_state, FALSE)
                              ELSE NoOp
  /\ route' = "wizard" /\ photos' = <<1>>
  /\ UNCHANGED <<proc, api_key, mock_mode, nstyles, i,
                 generated_images, failed, calls, sleeps, lastResult>>
  /\ UNCHANGED <<image_dir, temp, lastEnv, lastMock, lastRequest,
                 lastCompose, lastCleanup>>
  /\ UNCHANGED sideVars

(* ------------------------------ batches -------------------------------- *)
\* entry of a batch generator up to its loop: generate_all_images,
\* generate_portrait_images, generate_couple_images, generate_family_images,
\* generate_free_mode_images, the non-interactive celebrity branch of
\* command_generate ("cli", behind check_api_keys) and
\* handle_celebrity_scenario ("handler"). With no unit the tail of the
\* generator follows at once.
BeginBatch ==
  /\ proc = "up" /\ pc = "idle"
  /\ \E r \in Routes \ {"wizard"}, n \in 0..MaxUnits, s \in 1..MaxStyles,
        ok \in BOOLEAN, np \in 0..MaxPhotos :
       /\ (r = "cli" => api_key)
       /\ (r # "portrait" => s = 1)
       /\ np \in PhotoCounts(r)
       /\ route' = r /\ units' = FirstUnits(n) /\ nstyles' = s
       /\ photo_ok' = ok /\ photos' = FirstUnits(np)
       /\ IF np = 0
          THEN \* generate_free_mode_images: "At least one photo is required"
               /\ pc' = "nophotos"
               /\ last' = NoOp
               /\ UNCHANGED <<disk, proc, current_state, temp, lastCleanup>>
          ELSE IF n > 0
          THEN /\ pc' = "loop"
               /\ last' = NoOp
               /\ temp' = preprocess_user_photo(r, temp, ok)
               /\ UNCHANGED <<disk, proc, current_state, lastCleanup>>
          ELSE /\ pc' = "done"
               /\ IF Records(r)
                  THEN LET f == finish(current_state, <<>>) IN
                         /\ current_state' = f.mem /\ disk' = f.file
                         /\ last' = Rec("finish", "image_order", <<>>,
                                        current_state, FALSE)
                         /\ temp' = preprocess_user_photo(r, temp, ok)
                         /\ UNCHANGED <<proc, lastCleanup>>
                  ELSE /\ last' = NoOp
                       /\ proc' = IF r = "cli" THEN "down" ELSE proc
                       /\ IF r = "cli"
                          THEN \E locked \in SUBSET temp :
                               LET c == cleanup_temp_files(disk, temp, locked)
                               IN  /\ temp' = c.entries
                                   /\ lastCleanup' =
                                        CleanupRec("cleanup_temp_files",
                                                   disk, temp, locked, FALSE)
                          ELSE UNCHANGED <<temp, lastCleanup>>
                       /\ UNCHANGED <<disk, current_state>>
  /\ UNCHANGED <<api_key, mock_mode, i, generated_images, failed,
                 calls, sleeps, lastResult, image_dir, lastEnv, lastMock,
                 lastRequest, lastCompose>>
  /\ UNCHANGED sideVars

\* one iteration of the loop of the running batch: the generation call, the
\* bookkeeping of its outcome, the pause; the last iteration runs on into
\* the tail of the generator (for the non-interactive command: the summary
\* and cleanup_temp_files). An exception of the call leaves the loop and
\* the command.
GenUnit ==
  /\ proc = "up" /\ pc = "loop" /\ i < Len(units)
  /\ \E e \in ServiceEnvs(mock_mode, api_key),
        sample \in SampleChoices(mock_mode),
        locked \in SUBSET (IF route = "cli" THEN temp ELSE {}) :
       LET n == Len(units)
           r == IF UsesSingle(route)
                THEN generate_single_image(mock_mode, api_key, photo_ok,
                                           current_state, e)
                ELSE generate_with_photos(mock_mode, api_key, photo_ok, e)
           ok == r.status = "ok"
           path == OutputPath(route, units, nstyles, i)
           gi == IF ok THEN Append(generated_images, path)
                 ELSE generated_images
           recorded == ok /\ Records(route)
           u == IF recorded
                THEN update_state(current_state, "generated_images", gi)
                ELSE [mem |-> current_state, file |-> disk]
           isLast == i + 1 = n
           f == IF isLast /\ Records(route) THEN finish(u.mem, gi) ELSE u
           cleans == isLast /\ route = "cli" /\ r.status # "raise"
           c == cleanup_temp_files(disk, temp, locked)
       IN  /\ calls' = Append(calls, i)
           /\ lastResult' = r
           /\ lastEnv' = IF r.posts > 0 THEN e ELSE NoEnv
           /\ lastMock' = IF mock_mode THEN mock_image(sample) ELSE NoMock
           /\ lastRequest' = build_request(route, photos, mock_mode, api_key,
                                           photo_ok)
           /\ image_dir' = write_output(image_dir, path, r)
           /\ IF cleans
              THEN /\ temp' = c.entries
                   /\ lastCleanup' = CleanupRec("cleanup_temp_files", disk,
                                                temp, locked, FALSE)
              ELSE UNCHANGED <<temp, lastCleanup>>
           /\ IF r.status = "raise"
              THEN /\ pc' = "aborted" /\ proc' = "down"
                   /\ last' = NoOp
                   /\ UNCHANGED <<disk, current_state, i, generated_images,
                                  failed, sleeps>>
              ELSE /\ generated_images' = gi
                   /\ failed' = IF ~ok /\ Records(route)
                                THEN Append(failed,
                                       FailedName(route, units, nstyles, i))
                                ELSE failed
                   /\ sleeps' = IF Pauses(route, i, n, nstyles)
                                THEN Append(sleeps, i) ELSE sleeps
                   /\ i' = i + 1
                   /\ current_state' = f.mem /\ disk' = f.file
                   /\ pc' = IF isLast THEN "done" ELSE "loop"
                   /\ proc' = IF isLast /\ route = "cli" THEN "down" ELSE proc
                   /\ last' = IF isLast /\ Records(route)
                              THEN Rec("finish", "image_order", gi,
                                       current_state, FALSE)
                              ELSE IF recorded
                              THEN Rec("update_state", "generated_images", gi,
                                       current_state, FALSE)
                              ELSE NoOp
  /\ UNCHANGED <<api_key, mock_mode, route, units, nstyles, photo_ok,
                 photos, lastCompose>>
  /\ UNCHANGED sideVars

(* ------------------------- template generators ------------------------ *)
\* photos the callers hand to a template generator: fusion one or more,
\* poster one or none, edit and series one
TemplatePhotoCounts(kind) ==
  IF kind = "fusion" THEN 1..MaxPhotos
  ELSE IF kind = "poster" THEN {0, 1}
  ELSE {1}

\* generate_edit_images, generate_fusion_images, generate_series_images and
\* generate_poster_images, called directly with the supplied field values
\* or through handle_template_based_common: composition of the prompt, one
\* generation call, and on success the session state. A KeyError of the
\* composition leaves the generator before any generation call.
GenerateTemplate ==
  /\ proc = "up" /\ pc = "idle"
  /\ \E kind \in TemplateKinds, field \in Fields, supplied \in BOOLEAN,
        via \in BOOLEAN, np \in 0..MaxPhotos, ok \in BOOLEAN,
        e \in ServiceEnvs(mock_mode, api_key),
        sample \in SampleChoices(mock_mode) :
       LET fv == IF via THEN collect_field_value(field, supplied)
                 ELSE IF supplied THEN "value" ELSE "missing"
           c == compose(kind, field, fv)
           ph == FirstUnits(np)
           r == IF c.raised THEN NoResult
                ELSE IF np = 0
                THEN IF mock_mode THEN generate_mock_response
                     ELSE execute_api_request(api_key, e)
                ELSE generate_with_photos(mock_mode, api_key, ok, e)
           success == r.status = "ok"
           path == OutputPath(kind, <<1>>, 1, 0)
           u == update_state(current_state, "generated_images", <<path>>)
           f == finish(u.mem, <<path>>)
       IN  /\ np \in TemplatePhotoCounts(kind)
           /\ route' = kind /\ units' = <<1>> /\ nstyles' = 1
           /\ photos' = ph /\ photo_ok' = ok
           /\ lastCompose' = [kind |-> kind, field |-> field,
                              supplied |-> supplied, raised |-> c.raised,
                              filled |-> c.filled]
           /\ lastResult' = r
           /\ calls' = IF c.raised THEN calls ELSE Append(calls, 0)
           /\ lastEnv' = IF r.posts > 0 THEN e ELSE NoEnv
           /\ lastMock' = IF mock_mode /\ ~c.raised THEN mock_image(sample)
                          ELSE NoMock
           /\ lastRequest' =
                IF c.raised THEN NoRequest
                ELSE build_request(kind, ph, mock_mode, api_key,
                                   ok \/ np = 0)
           /\ image_dir' = write_output(image_dir, path, r)
           /\ temp' = IF kind = "poster" /\ (c.raised \/ np = 0) THEN temp
                      ELSE preprocess_user_photo(kind, temp, ok)
           /\ IF c.raised \/ r.status = "raise"
              THEN /\ pc' = "aborted" /\ proc' = "down"
                   /\ last' = NoOp
                   /\ UNCHANGED <<disk, current_state, i, generated_images>>
              ELSE /\ pc' = "done" /\ i' = 1
                   /\ generated_images' = IF success THEN <<path>> ELSE <<>>
                   /\ IF success
                      THEN /\ current_state' = f.mem /\ disk' = f.file
                           /\ last' = Rec("finish", "image_order", <<path>>,
                                          current_state, FALSE)
                      ELSE /\ last' = NoOp
                           /\ UNCHANGED <<disk, current_state>>
                   /\ UNCHANGED proc
  /\ UNCHANGED <<api_key, mock_mode, failed, sleeps, lastCleanup>>
  /\ UNCHANGED sideVars

(* ------------------------------ commands ------------------------------- *)
\* command_generate: check_api_keys() fails, the command returns 1 before
\* it constructs InteractionManager and ImageGenerator, whatever MOCK_API
\* says
CheckApiKeysFails ==
  /\ proc = "new"
  /\ \E m \in BOOLEAN : mock_mode' = m
  /\ api_key' = FALSE
  /\ proc' = "down" /\ pc' = "refused"
  /\ UNCHANGED <<disk, current_state, route, units, nstyles, photo_ok, i,
                 generated_images, failed, calls, sleeps, lastResult, last>>
  /\ UNCHANGED restVars

\* command_cleanup ("main.py cleanup")
CommandCleanup ==
  /\ proc = "new"
  /\ \E locked \in SUBSET temp, stateLocked \in BOOLEAN :
       LET c == command_cleanup(disk, temp, locked, stateLocked)
       IN  /\ disk' = c.file /\ temp' = c.entries
           /\ lastCleanup' = CleanupRec("command_cleanup", disk, temp,
                                        locked, stateLocked)
  /\ proc' = "down" /\ pc' = "cleaned"
  /\ UNCHANGED <<current_state, api_key, mock_mode, route, units, nstyles,
                 photo_ok, i, generated_images, failed, calls, sleeps,
                 lastResult, last, photos, image_dir, lastEnv, lastMock,
                 lastRequest, lastCompose>>
  /\ UNCHANGED sideVars

(* ------------------------------ review --------------------------------- *)
\* show_generated_images(generated_images) is called by the interactive
\* branch of command_generate, which returns right after it, and by callers
\* of generate_all_images, which may call it again
ReviewReady ==
  /\ proc = "up" /\ pc \in {"done", "review"} /\ route \in {"wizard", "all"}

ReviewEnds == proc' = IF route = "wizard" THEN "down" ELSE proc

ReviewFrame ==
  /\ UNCHANGED <<api_key, mock_mode, route, units, nstyles, photo_ok, i,
                 generated_images, failed, calls, sleeps, lastResult>>
  /\ UNCHANGED restVars

\* show_generated_images: "No images generated yet", choice 1 (view details)
\* and an unknown choice change nothing
ShowNothing ==
  /\ ReviewReady
  /\ pc' = "review"
  /\ last' = NoOp
  /\ ReviewEnds
  /\ UNCHANGED <<disk, current_state>>
  /\ ReviewFrame

\* show_generated_images, choice 2: reorder
ShowReorder ==
  /\ ReviewReady /\ generated_images # <<>>
  /\ \E inp \in OrderInputs(Len(generated_images)), confirm \in BOOLEAN :
       LET new_order == reorder_images(generated_images, inp, confirm)
           d == Put(current_state, "image_order", new_order)
       IN  /\ current_state' = d /\ disk' = save_state(d)
           /\ last' = Rec("reorder", "image_order", new_order, current_state, FALSE)
  /\ pc' = "review"
  /\ ReviewEnds
  /\ ReviewFrame

\* show_generated_images, choice 3: _regenerate_image marks an index
ShowRegenerate ==
  /\ ReviewReady /\ generated_images # <<>>
  /\ \E idx \in 0..(Len(generated_images) - 1) :
       LET d == Put(current_state, "regenerate_index", idx)
       IN  /\ current_state' = d /\ disk' = save_state(d)
           /\ last' = Rec("regenerate", "regenerate_index", idx,
                          current_state, FALSE)
  /\ pc' = "review"
  /\ ReviewEnds
  /\ ReviewFrame

\* show_generated_images, choice 4: confirm
ShowConfirm ==
  /\ ReviewReady /\ generated_images # <<>>
  /\ LET d == Put(Put(current_state, "confirmed", TRUE),
                  "step", "images_confirmed")
     IN  /\ current_state' = d /\ disk' = save_state(d)
         /\ last' = Rec("confirm", "step", "images_confirmed", current_state, FALSE)
  /\ pc' = "review"
  /\ ReviewEnds
  /\ ReviewFrame

\* show_generated_images, choice 5: sys.exit(0)
ShowCancel ==
  /\ ReviewReady /\ generated_images # <<>>
  /\ proc' = "down"
  /\ pc' = "review"
  /\ last' = NoOp
  /\ UNCHANGED <<disk, current_state>>
  /\ ReviewFrame

(* ---------------------------- specification ---------------------------- *)
Next ==
  \/ Start
  \/ CollectUserInputs
  \/ WizardPhoto
  \/ WizardCharacters
  \/ WizardCount
  \/ BeginBatch
  \/ GenUnit
  \/ GenerateTemplate
  \/ CheckApiKeysFails
  \/ CommandCleanup
  \/ ShowNothing
  \/ ShowReorder
  \/ ShowRegenerate
  \/ ShowConfirm
  \/ ShowCancel

Spec == Init /\ [][Next]_vars

(* ----------------------------- single calls ---------------------------- *)
\* One call of a handler or a helper on one input: the input is chosen at
\* the start, the call runs once.
Pending(op, arg) == [op |-> op, done |-> FALSE, arg |-> arg, out |-> 0]
Done(op, arg, out) == [op |-> op, done |-> TRUE, arg |-> arg, out |-> out]

\* what a single call leaves alone
callFrame == <<proc, api_key, mock_mode, pc, route, units, nstyles, photo_ok,
               i, generated_images, failed, calls, sleeps, lastResult, last,
               photos, image_dir, temp, lastEnv, lastMock, lastRequest,
               lastCompose, lastCleanup, inst, saver>>

\* a session document stored with other whitespace or escapes than
\* json.dump(..., indent=2, ensure_ascii=False) writes: json.load reads the
\* same document from it
FileReformatted(d) == [kind |-> "json_reformatted", doc |-> d]

RoundTripFiles == PriorFiles \cup {FileReformatted(PriorGenerated)}

\* InteractionManager(config) followed by _save_state(): the file afterwards
load_then_save(f) ==
  LET r == load_state(f)
  IN  [raised |-> r.raised, state |-> r.state,
       file |-> IF r.raised THEN f ELSE save_state(r.state)]

LoadThenSave ==
  /\ call = Pending("load_save", 0)
  /\ LET r == load_then_save(disk)
     IN  /\ disk' = r.file /\ current_state' = r.state
         /\ call' = Done("load_save", disk, r.raised)
  /\ UNCHANGED callFrame

\* the scenario variants and the helper that builds the payload of each
Variants == {"celebrity", "portrait", "couple", "family", "free", "edit",
             "fusion", "series", "poster", "poster_without_photo"}

payload_helper(v) ==
  IF v = "celebrity" THEN "generate_single_image"
  ELSE IF v \in {"portrait", "edit", "series", "poster"}
  THEN "_generate_with_single_photo"
  ELSE IF v \in {"couple", "family", "fusion"}
  THEN "_generate_with_multiple_photos"
  ELSE IF v = "free" THEN "_generate_with_multiple_photos_and_prompts"
  ELSE "_generate_without_photo"

\* the standing negative-prompt string of the payloads ("blurry, distorted
\* faces, ... extra fingers")
StandingNegative == "blurry, distorted faces"

\* negative prompts that reach a generator call: "" (none), or the one the
\* user typed (free mode: collect_free_mode_inputs, --negative_prompt) or the
\* selected template carries (collect_edit_inputs, collect_fusion_inputs,
\* collect_series_inputs, collect_poster_inputs)
SuppliedNegative(v) ==
  IF v \in {"free", "edit", "fusion", "series", "poster",
            "poster_without_photo"}
  THEN {"", "modern, digital"} ELSE {""}

\* the "negative_prompt" field of the payload the helper builds: only
\* _generate_with_multiple_photos_and_prompts has a parameter for it
negative_prompt(helper, given) ==
  IF helper = "_generate_with_multiple_photos_and_prompts" /\ given # ""
  THEN given ELSE StandingNegative

\* the generators of the template scenarios take (photo, template,
\* field_values): inputs["negative_prompt"] has no way in; free mode passes
\* its negative_prompt argument on
request_negative_prompt(v, supplied) ==
  negative_prompt(payload_helper(v), IF v = "free" THEN supplied ELSE "")

BuildPayload ==
  /\ call.op = "build_payload" /\ ~call.done
  /\ call' = Done("build_payload", call.arg,
                  request_negative_prompt(call.arg.variant,
                                          call.arg.supplied))
  /\ UNCHANGED <<disk, current_state>>
  /\ UNCHANGED callFrame

BuildPayloadInputs ==
  UNION {{Pending("build_payload", [variant |-> v, supplied |-> n]) :
            n \in SuppliedNegative(v)} : v \in Variants}

\* config.get_characters(): the 18 characters of
\* data/default_characters.json, named 1..18 in catalogue order
CatalogueSize == 18
all_chars == FirstUnits(CatalogueSize)

\* args.count: no such attribute, None (--count omitted), or an int
AbsentCount == [kind |-> "absent", n |-> 0]
NoneCount == [kind |-> "None", n |-> 0]
IntCount(k) == [kind |-> "int", n |-> k]

\* getattr(args, 'count', default): argparse sets args.count to None when
\* --count is omitted, the default is used only when args has no such
\* attribute
getattr_count(count, default) ==
  IF count = AbsentCount THEN IntCount(default) ELSE count

\* get_count_with_default: getattr(args, 'count', default) or default
get_count_with_default(count, default) ==
  IF getattr_count(count, default) \in {NoneCount, IntCount(0)}
  THEN IntCount(default)
  ELSE getattr_count(count, default)

\* list[:count]; a slice up to None is the whole list
Slice(q, count) == IF count = NoneCount THEN q ELSE Take(q, count.n)

\* "for char in all_chars: if char['name'] in char_names:
\* selected_chars.append(char)"
filter_characters(all, char_names) ==
  SelectSeq(all, LAMBDA c : \E k \in 1..Len(char_names) : char_names[k] = c)

\* the celebrity branch of command_generate and handle_celebrity_scenario:
\* characters_to_generate, which the loop then walks front to back
characters_to_generate(characters, count) ==
  IF characters # <<>> THEN filter_characters(all_chars, characters)
  ELSE Slice(all_chars, getattr_count(count, DefaultImageCount))

\* range(count) of generate_couple_images and generate_family_images raises
\* TypeError for None; generate_portrait_images has "if count is None:
\* count = 1"
count_loop(scenario, count) ==
  IF count = NoneCount
  THEN IF scenario = "portrait"
       THEN [raised |-> FALSE, units |-> FirstUnits(1)]
       ELSE [raised |-> TRUE, units |-> <<>>]
  ELSE [raised |-> FALSE, units |-> FirstUnits(count.n)]

\* the units a non-interactive run attempts, in the order of its calls:
\* command_generate passes getattr(args, 'count', 1) on, the handlers of
\* scenario_handlers.py get_count_with_default(args, 1)
non_interactive(via, scenario, characters, count) ==
  IF scenario = "celebrity"
  THEN [raised |-> FALSE, units |-> characters_to_generate(characters, count)]
  ELSE IF via = "handler"
  THEN count_loop(scenario, get_count_with_default(count, 1))
  ELSE count_loop(scenario, getattr_count(count, 1))

NonInteractive ==
  /\ call.op = "non_interactive" /\ ~call.done
  /\ call' = Done("non_interactive", call.arg,
                  non_interactive(call.arg.via, call.arg.scenario,
                                  call.arg.characters, call.arg.count))
  /\ UNCHANGED <<disk, current_state>>
  /\ UNCHANGED callFrame

\* --characters: up to MaxUnits distinct names out of the first
\* MaxUnits + 1 of the catalogue, in any order; <<>> when not given
CharacterArgs ==
  {q \in UNION {[1..l -> 1..(MaxUnits + 1)] : l \in 0..MaxUnits} :
     \A a, b \in 1..Len(q) : a # b => q[a] # q[b]}

\* --count: not an attribute of args, omitted (None), or a number
CountArgs ==
  {AbsentCount, NoneCount} \cup {IntCount(k) : k \in 1..MaxUnits}

\* only the celebrity scenario reads --characters
NonInteractiveInputs ==
  {x \in {Pending("non_interactive",
                  [via |-> v, scenario |-> sc, characters |-> ch,
                   count |-> c]) :
            v \in {"command_generate", "handler"},
            sc \in {"celebrity", "portrait", "couple", "family"},
            ch \in CharacterArgs, c \in CountArgs} :
     x.arg.scenario = "celebrity" \/ x.arg.characters = <<>>}

\* images at, just under and just over each limit of validate_image, and
\* files cv2.imread cannot decode
ValidatorImages ==
  [decodable : BOOLEAN, w : (MinSize - 1)..(MinSize + 1),
   h : (MinSize - 1)..(MinSize + 1),
   fm : (BlurThreshold - 1)..(BlurThreshold + 1)]

\* one call of ImageGenerator.validate_image(path)
ValidateImage ==
  /\ call.op = "validate_image" /\ ~call.done
  /\ call' = Done("validate_image", call.arg,
                  validate_image(call.arg.mock, call.arg.img))
  /\ UNCHANGED <<disk, current_state>>
  /\ UNCHANGED callFrame

ValidateImageInputs ==
  {Pending("validate_image", [mock |-> m, img |-> g]) :
     m \in BOOLEAN, g \in ValidatorImages}

\* validate_photo_paths: max_count = 14 by default, 6 where the family and
\* fusion handlers call it
DefaultMaxCount == 14
SmallMaxCount == 6

\* min_count and max_count of the handlers that take --photos
photo_limits(handler) ==
  IF handler = "couple" THEN [min |-> 2, max |-> DefaultMaxCount]
  ELSE IF handler = "free" THEN [min |-> 1, max |-> DefaultMaxCount]
  ELSE [min |-> 1, max |-> SmallMaxCount]

\* validate_photo_paths(photos_arg, min_count, max_count) on a list of
\* paths (<<>>: no --photos): too long a list gives valid = False beside
\* the first max_count paths
validate_photo_paths(photo_paths, exist, min_count, max_count) ==
  IF photo_paths = <<>> THEN [valid |-> FALSE, paths |-> <<>>]
  ELSE IF Len(photo_paths) < min_count THEN [valid |-> FALSE, paths |-> <<>>]
  ELSE IF Len(photo_paths) > max_count
  THEN [valid |-> FALSE, paths |-> Take(photo_paths, max_count)]
  ELSE IF ~exist THEN [valid |-> FALSE, paths |-> <<>>]
  ELSE [valid |-> TRUE, paths |-> photo_paths]

\* handle_couple_scenario, handle_family_scenario, handle_free_scenario and
\* handle_fusion_scenario up to the generator call, for a command line with
\* --prompt and without --photo: "if not valid: print(error); return
\* False, []", else the generator gets photo_paths
\* (generate_free_mode_images cuts its list to 14 once more)
handle_photos(handler, photo_paths, exist) ==
  LET lim == photo_limits(handler)
      v == validate_photo_paths(photo_paths, exist, lim.min, lim.max)
  IN  IF ~v.valid THEN [proceeds |-> FALSE, photos |-> <<>>]
      ELSE [proceeds |-> TRUE,
            photos |-> IF handler = "free"
                       THEN Take(v.paths, DefaultMaxCount) ELSE v.paths]

HandlePhotos ==
  /\ call.op = "handle_photos" /\ ~call.done
  /\ call' = Done("handle_photos", call.arg,
                  handle_photos(call.arg.handler, call.arg.photo_paths,
                                call.arg.exist))
  /\ UNCHANGED <<disk, current_state>>
  /\ UNCHANGED callFrame

\* --photos with no path up to one path more than the handler allows
HandlePhotosInputs ==
  UNION {{Pending("handle_photos",
                  [handler |-> h, photo_paths |-> FirstUnits(n),
                   exist |-> x]) :
            n \in 0..(photo_limits(h).max + 1), x \in BOOLEAN} :
         h \in {"couple", "family", "free", "fusion"}}

\* what the user types at "How many characters would you like to be
\* with?": nothing, something int() rejects, or a number
NoEntry == [kind |-> "empty", n |-> 0]
BadEntry == [kind |-> "invalid", n |-> 0]
IntEntry(k) == [kind |-> "int", n |-> k]

\* "if count < 1 or count > 10" of step 3
MaxEnteredCount == 10

\* "while len(selected_chars) < 5" of menu choice 4
MaxCustom == 5

\* custom characters are none of the catalogue
custom_chars(n) == [k \in 1..n |-> CatalogueSize + k]

\* command_generate, interactive mode, step 2: the characters selected, or
\* those of the session document
wizard_select(d, choice, count, custom) ==
  IF Get(d, "selected_characters", <<>>) # <<>> THEN d.selected_characters
  ELSE IF choice \in {"1", "3"}
  THEN Slice(all_chars, getattr_count(count, DefaultImageCount))
  ELSE IF choice = "2" THEN all_chars
  ELSE IF choice = "4" THEN custom_chars(Min(custom, MaxCustom))
  ELSE <<>>

\* command_generate, interactive mode, step 3: asked only when the session
\* document holds no image_count; what is not a number of 1..10 gives
\* len(selected_chars)
wizard_count(d, entered, selected_chars) ==
  IF Get(d, "image_count", 0) # 0 THEN d.image_count
  ELSE IF entered.kind = "int" /\ entered.n >= 1
             /\ entered.n <= MaxEnteredCount
  THEN entered.n
  ELSE Len(selected_chars)

\* steps 2 and 3 of the wizard up to its generation loop, which calls
\* generate_single_image once for each of units
wizard(d, choice, count, custom, entered) ==
  LET selected_chars == wizard_select(d, choice, count, custom)
      n == wizard_count(d, entered, selected_chars)
  IN  [units |-> Take(selected_chars, n),
       asked |-> Get(d, "selected_characters", <<>>) = <<>>
                   \/ Get(d, "image_count", 0) = 0,
       mem |-> LET s2 == IF Get(d, "selected_characters", <<>>) = <<>>
                         THEN Put(d, "selected_characters", selected_chars)
                         ELSE d
               IN  IF Get(d, "image_count", 0) = 0
                   THEN Put(s2, "image_count", n) ELSE s2]

Wizard ==
  /\ call.op = "wizard" /\ ~call.done
  /\ LET r == wizard(call.arg.d, call.arg.choice, call.arg.count,
                     call.arg.custom, call.arg.entered)
     IN  /\ call' = Done("wizard", call.arg, [units |-> r.units])
         /\ current_state' = r.mem
         /\ disk' = IF r.asked THEN save_state(r.mem) ELSE disk
  /\ UNCHANGED callFrame

\* the session document after step 1 (fresh, left by an earlier run, or
\* an object without the session keys), the menu choice, --count, the number
\* of custom characters typed, and the count typed
WizardInputs ==
  {Pending("wizard",
           [d |-> d, choice |-> ch, count |-> c, custom |-> cu,
            entered |-> e]) :
     d \in {DefaultState, PriorCollected, OtherJson},
     ch \in {"1", "2", "3", "4", "5"},
     c \in {NoneCount, IntCount(MaxUnits), IntCount(MaxEnteredCount + 2)},
     cu \in {1, MaxCustom},
     e \in {NoEntry, BadEntry, IntEntry(0), IntEntry(MaxUnits),
            IntEntry(MaxEnteredCount), IntEntry(MaxEnteredCount + 1)}}

CallInputs ==
  {Pending("load_save", 0)}
    \cup WizardInputs
    \cup HandlePhotosInputs
    \cup ValidateImageInputs
    \cup BuildPayloadInputs
    \cup NonInteractiveInputs

CallInit ==
  /\ call \in CallInputs
  /\ disk \in (IF call.op = "load_save" THEN RoundTripFiles ELSE {FileAbsent})
  /\ temp = {}
  /\ NoCommand
  /\ inst = NoInst /\ saver = 0

CallNext ==
  \/ LoadThenSave
  \/ Wizard
  \/ HandlePhotos
  \/ ValidateImage
  \/ BuildPayload
  \/ NonInteractive

CallSpec == CallInit /\ [][CallNext]_vars

(* ------------------- two instances on one state file ------------------- *)
\* two command_generate processes in interactive mode, each with its own
\* InteractionManager on the same generation_state.json
Instances == {1, 2}

twoFrame == <<proc, current_state, api_key, mock_mode, pc, route, units,
              nstyles, photo_ok, i, generated_images, failed, calls, sleeps,
              lastResult, last, photos, image_dir, temp, lastEnv, lastMock,
              lastRequest, lastCompose, lastCleanup, call>>

\* an instance: where it stands, self.current_state, the list
\* generated_images of its loop, the index of its loop, and where it goes on
\* once the file it has opened is written
NewInstance ==
  [pc |-> "new", mem |-> DefaultState, generated_images |-> <<>>, k |-> 0,
   next |-> "new"]

\* the documents of the two instances differ in the lists generated_images
\* and image_order only, whose paths follow one naming scheme: the document
\* with more entries is the longer text
doc_len(d) ==
  Len(Get(d, "generated_images", <<>>)) + Len(Get(d, "image_order", <<>>))

\* length of the file; a file that is not JSON carries the document whose
\* tail it ends with
file_len(f) == IF f.kind = "absent" THEN 0 ELSE doc_len(f.doc)

\* open(self.state_file, 'w') of _save_state: the file is there and empty
open_w == FileNotJson

\* json.dump and the close of _save_state through a handle opened earlier:
\* the text goes to offset 0, and what another handle has written past its
\* end since the open stays in the file
dump_at_0(f, d) ==
  IF file_len(f) > doc_len(d) THEN [kind |-> "notjson", doc |-> f.doc]
  ELSE json_dump(d)

\* InteractionManager.__init__: self.current_state = self._load_state()
Construct(p) ==
  /\ inst[p].pc = "new"
  /\ ~load_state(disk).raised
  /\ inst' = [inst EXCEPT ![p].pc = "loop",
                          ![p].mem = load_state(disk).state]
  /\ UNCHANGED <<disk, saver>>
  /\ UNCHANGED twoFrame

\* one iteration of the generation loop of the wizard: a successful unit is
\* appended and update_state("generated_images", generated_images) assigns
\* the field and opens the file
GenerateOne(p) ==
  /\ inst[p].pc = "loop" /\ inst[p].k < MaxUnits
  /\ \E ok \in BOOLEAN :
       IF ok
       THEN LET gi == Append(inst[p].generated_images,
                             <<"photo_with", p, inst[p].k>>)
            IN  /\ inst' = [inst EXCEPT
                              ![p].generated_images = gi,
                              ![p].mem = Put(inst[p].mem,
                                             "generated_images", gi),
                              ![p].k = inst[p].k + 1,
                              ![p].pc = "writing", ![p].next = "loop"]
                /\ disk' = open_w
       ELSE /\ inst' = [inst EXCEPT ![p].k = inst[p].k + 1]
            /\ UNCHANGED disk
  /\ UNCHANGED saver
  /\ UNCHANGED twoFrame

\* the end of the wizard: current_state["image_order"] =
\* generated_images.copy(), then _save_state opens the file
Finish(p) ==
  /\ inst[p].pc = "loop"
  /\ inst' = [inst EXCEPT
                ![p].mem = Put(inst[p].mem, "image_order",
                               inst[p].generated_images),
                ![p].pc = "writing", ![p].next = "done"]
  /\ disk' = open_w
  /\ UNCHANGED saver
  /\ UNCHANGED twoFrame

\* _save_state, from json.dump to the close of the file
Dump(p) ==
  /\ inst[p].pc = "writing"
  /\ disk' = dump_at_0(disk, inst[p].mem)
  /\ saver' = p
  /\ inst' = [inst EXCEPT ![p].pc = inst[p].next]
  /\ UNCHANGED twoFrame

TwoInit ==
  /\ disk \in {FileAbsent, json_dump(PriorCollected)}
  /\ temp = {} /\ NoCommand /\ call = NoCall
  /\ inst = [p \in Instances |-> NewInstance]
  /\ saver = 0

TwoNext ==
  \E p \in Instances :
    \/ Construct(p)
    \/ GenerateOne(p)
    \/ Finish(p)
    \/ Dump(p)

TwoSpec == TwoInit /\ [][TwoNext]_vars

(* ------------------------------ properties ----------------------------- *)
Range(q) == {q[k] : k \in 1..Len(q)}
Count(q, x) == Cardinality({k \in 1..Len(q) : q[k] = x})
IsPermutation(a, b) ==
  /\ Len(a) = Len(b)
  /\ \A x \in Range(a) \cup Range(b) : Count(a, x) = Count(b, x)

\* 0, 1, ..., n - 1
Indices(n) == [k \in 1..n |-> k - 1]

Rank(st) ==
  IF st = "initial" THEN 0 ELSE IF st = "inputs_collected" THEN 1 ELSE 2

FileHas(f, k) == f.kind = "json" /\ k \in DOMAIN f.doc

BatchOver == pc \in {"done", "review"}

Taxonomy == {"MissingCredential", "InvalidReferenceImage", "Timeout",
             "TransportError", "MalformedResponse", "RemoteError",
             "QualityRejected"}

\* C1: a batch run over N units invokes the generation step exactly N times,
\* once per unit in order, and every unit ends in exactly one of the two
\* outcome lists: len(succeeded) + len(failed) = N (stated for the
\* generators that keep both lists; a run ends by returning or by raising).
C1_OncePerUnit ==
  ((BatchOver \/ pc = "aborted") /\ Records(route)) =>
    /\ calls = Indices(Len(units))
    /\ Len(generated_images) + Len(failed) = Len(units)

\* C2: a unit that fails for any reason of the error taxonomy never aborts
\* the run: the run is not left by an exception and, once it is over, every
\* unit has been attempted.
C2_FailureNeverAborts ==
  /\ (lastResult.reason \in Taxonomy => pc # "aborted")
  /\ (BatchOver => Len(calls) = Len(units))

\* C3: in every batch path a batch of N > 1 units pauses exactly N - 1
\* times, after each unit but the last.
C3_PausesBetweenCalls ==
  (BatchOver /\ Len(units) > 1) => sleeps = Indices(Len(units) - 1)

\* C4: with no credential and mock mode off every generation call returns a
\* failure and no HTTP request (POST or GET) is issued.
C4_NoCredentialNoRequest ==
  (proc # "new" /\ ~api_key /\ ~mock_mode) =>
    /\ lastResult.status \in {"none", "fail"}
    /\ lastResult.posts = 0 /\ lastResult.gets = 0

\* C5: when a batch generator has completed, the persisted session state
\* has image_order = generated_images.
C5_OrderSnapshot ==
  (pc = "done" /\ Records(route)) =>
    /\ FileHas(disk, "image_order") /\ FileHas(disk, "generated_images")
    /\ disk.doc.image_order = disk.doc.generated_images

\* C6: after a reorder on the review screen image_order is a permutation of
\* the generated images.
C6_ReorderIsPermutation ==
  last.op = "reorder" =>
    IsPermutation(current_state.image_order, generated_images)

\* C7: no step of the program moves the persisted step field from a later
\* stage to an earlier one.
C7_StepForwardOnly ==
  [][(FileHas(disk, "step") /\ FileHas(disk', "step"))
       => Rank(disk'.doc.step) >= Rank(disk.doc.step)]_vars

\* C8: loading a missing or corrupt state file (not a well-formed session
\* document) never raises and gives the default document.
C8_LoadFallsBackToDefaults ==
  (last.op = "load" /\ (disk.kind # "json" \/ ~IsSessionDoc(disk.doc))) =>
    /\ ~last.raised
    /\ current_state = DefaultState

\* C9: when update_state(key, value) returns, the state file holds a
\* document equal to the in-memory state, in which key maps to value and
\* every other field is as it was before the call.
C9_UpdateWritesOneField ==
  last.op = "update_state" =>
    /\ disk.kind = "json"
    /\ ~load_state(disk).raised
    /\ load_state(disk).state = current_state
    /\ last.key \in DOMAIN current_state
    /\ current_state[last.key] = last.value
    /\ DOMAIN current_state = (DOMAIN last.before) \cup {last.key}
    /\ \A k \in (DOMAIN last.before) \ {last.key} :
         current_state[k] = last.before[k]

\* an update_state call that changed the document: the second image of a
\* batch has been pushed into generated_images
C9_Witness ==
  /\ last.op = "update_state" /\ last.key = "generated_images"
  /\ Len(last.value) >= 1
  /\ last.before # current_state

\* C10: after every successful unit, in every orchestration path, the
\* persisted generated_images is the list of paths succeeded so far.
C10_PersistedSucceeded ==
  (lastResult.status = "ok" /\ pc \in {"loop", "done", "review"}) =>
    /\ FileHas(disk, "generated_images")
    /\ disk.doc.generated_images = generated_images

\* the image as cv2 reads it back passes both checks of the quality gate
PassesQuality(img) ==
  /\ img.decodable
  /\ img.w >= MinSize /\ img.h >= MinSize
  /\ img.fm >= BlurThreshold

\* the service answered with an image and the image was written
ImageWritten(e) ==
  \/ e.resp = "b64_json"
  \/ (e.resp = "url" /\ e.get_ok)

\* the output path of the latest generation call
LatestPath == OutputPath(route, units, nstyles, calls[Len(calls)])

\* generated_images of the state file, empty when the file has none
Persisted(f) ==
  IF FileHas(f, "generated_images") THEN f.doc.generated_images ELSE <<>>

\* C11: in real mode a generation call succeeds only if the response has no
\* top-level error, a non-empty data array whose element has no error and
\* carries b64_json or url, and the written image passes validation; every
\* other response shape gives a failure result, not an exception and not a
\* success.
C11_SuccessOnlyForValidImage ==
  lastEnv.resp # "none" =>
    /\ lastResult.status \in {"ok", "fail"}
    /\ (lastResult.status = "ok" <=>
          (ImageWritten(lastEnv) /\ PassesQuality(lastEnv.img)))
    /\ (lastEnv.resp \in {"top_error", "no_data", "elem_error", "no_payload"}
          => (lastResult.status = "fail" /\ ~lastResult.wrote))

\* a response whose data element has none of error, b64_json and url has
\* been answered to the helper path of generate_couple_images
C11_Witness ==
  /\ lastEnv.resp = "no_payload" /\ route = "couple"
  /\ lastResult.status = "fail"
  /\ lastResult.posts = 1

\* C12: an image that is written and then fails the quality gate makes the
\* unit fail: its path enters neither the succeeded list nor the persisted
\* generated_images, and the written file stays on disk; no step of the
\* program removes a file from the images directory.
C12_RejectedFileStays ==
  [][/\ image_dir \subseteq image_dir'
     /\ (calls' # calls /\ ImageWritten(lastEnv')
           /\ ~PassesQuality(lastEnv'.img)) =>
          /\ lastResult'.status = "fail"
          /\ LatestPath' \in image_dir'
          /\ generated_images' = generated_images
          /\ Persisted(disk') = Persisted(disk)]_vars

\* a downloaded image that is too small has been rejected and its file is
\* in the images directory
C12_Witness ==
  /\ lastEnv.resp = "url" /\ lastEnv.img.w < MinSize
  /\ lastResult.reason = "QualityRejected"
  /\ calls # <<>> /\ LatestPath \in image_dir
  /\ generated_images = <<>>

\* C13: the image field of every payload follows the number of reference
\* photos: one photo gives a scalar string, two or more give the list of
\* the photos in input order.
C13_ImageShapeFollowsPhotoCount ==
  lastRequest.image.shape \in {"scalar", "list"} =>
    /\ (Len(photos) = 1 => lastRequest.image.shape = "scalar")
    /\ (Len(photos) >= 2 => lastRequest.image.shape = "list")
    /\ lastRequest.image.refs = photos

\* C14: with mock mode enabled a missing credential does not stop the
\* command, and every generation request reports success without an HTTP
\* request and without the quality gate.
C14_MockNeedsNoCredential ==
  mock_mode =>
    /\ pc # "refused"
    /\ lastResult.status \in {"none", "ok"}
    /\ lastResult.posts = 0 /\ lastResult.gets = 0
    /\ ~lastResult.validated

\* C15: a synthesized mock placeholder has the configured width and height
\* and is produced after the simulated delay.
C15_MockPlaceholderSize ==
  lastMock.source = "synthesized" =>
    /\ lastMock.w = ImageWidth /\ lastMock.h = ImageHeight
    /\ lastMock.delays >= 1

\* C16: template-driven composition fails with a hard error and issues no
\* generation request when a required field has neither a supplied value
\* nor a declared default; the placeholder is never filled with an empty
\* value.
C16_MissingFieldIsHardError ==
  (lastCompose.kind # "none" /\ lastCompose.field.required
     /\ ~lastCompose.supplied /\ ~lastCompose.field.has_default) =>
    /\ lastCompose.raised
    /\ lastCompose.filled # "empty"
    /\ lastResult = NoResult /\ calls = <<>>

\* C17: the prompt of a couple or family request over P photos holds one
\* person-extraction clause per photo, binding person k to photo k for
\* k = 1..P and naming no photo beyond P.
C17_OneClausePerPhoto ==
  (route \in {"couple", "family"} /\ calls # <<>>) =>
    lastRequest.clauses = [k \in 1..Len(photos) |-> Clause(k, k)]

\* C18: every cleanup of the temp area leaves the session-state file as it
\* was, deletes every other file whose deletion does not fail, and runs only
\* where a caller invokes it (the generators themselves never clean up).
C18_CleanupKeepsStateFile ==
  lastCleanup.op # "none" =>
    /\ disk = lastCleanup.file
    /\ \A x \in lastCleanup.entries :
         (x.is_file /\ x \notin lastCleanup.locked) => x \notin temp
    /\ lastCleanup.locked \subseteq temp
    /\ (lastCleanup.op = "cleanup_temp_files" => route = "cli")

\* C19: in mock mode a batch of N units creates N pairwise-distinct output
\* files: after k units the images directory holds k files of this run.
C19_MockFilesDistinct ==
  (mock_mode /\ pc \in {"loop", "done", "review"}) =>
    /\ Cardinality(image_dir) = Len(calls)
    /\ (BatchOver /\ route # "none" => Cardinality(image_dir) = Len(units))

\* a mock batch of two or more units is over
C19_Witness ==
  /\ mock_mode /\ pc = "done" /\ Len(units) >= 2
  /\ Cardinality(image_dir) = Len(units)

\* C20: once the persisted confirmed flag is true no operation of the
\* wizard writes it back to false (a step that removes the state file
\* writes no flag).
C20_ConfirmedMonotonic ==
  [][(FileHas(disk, "confirmed") /\ disk.doc.confirmed
        /\ FileHas(disk', "confirmed")) => disk'.doc.confirmed]_vars

\* a later command has run collect_user_inputs on a confirmed session
C20_Witness ==
  /\ last.op = "collect_user_inputs" /\ last.key = "step"
  /\ FileHas(disk, "confirmed") /\ disk.doc.confirmed
  /\ disk.doc.step = "inputs_collected"

\* C23: every failed generation call emits at least one diagnostic message
\* before it returns the failure, whatever the cause (a data element with no
\* image payload and an image the validator cannot decode included).
C23_FailurePrintsDiagnostic ==
  lastResult.status = "fail" => lastResult.diag

\* C27: in every persisted session state reachable through the wizard
\* operations, confirmed is true if and only if step is images_confirmed.
C27_ConfirmedIffStep ==
  (FileHas(disk, "confirmed") /\ FileHas(disk, "step")) =>
    (disk.doc.confirmed <=> disk.doc.step = "images_confirmed")

\* the backing file is absent or holds a session document
HoldsSessionOrAbsent(f) ==
  \/ f.kind = "absent"
  \/ (f.kind \in {"json", "json_reformatted"} /\ IsSessionDoc(f.doc))

\* C21: save(load()) is a no-op on disk: for every state of the backing file
\* (absent, or holding any session document), loading and immediately saving
\* leaves the on-disk content exactly as it was.
C21_SaveLoadIsNoOp ==
  (call.op = "load_save" /\ call.done /\ HoldsSessionOrAbsent(call.arg)) =>
    disk = call.arg

\* C22: in every scenario variant, the request's negative prompt is the
\* standing default string unless a negative prompt was explicitly supplied
\* (by the user or by the selected template), in which case the request
\* carries exactly the supplied one.
C22_NegativePromptReplaced ==
  (call.op = "build_payload" /\ call.done) =>
    call.out = IF call.arg.supplied # "" THEN call.arg.supplied
               ELSE StandingNegative

\* C24: units are processed strictly in caller-supplied order: generation
\* calls are issued in the order the caller listed the units (the order of
\* the names given via --characters included), and the succeeded list keeps
\* that order.
C24_CallerOrder ==
  (call.op = "non_interactive" /\ call.done
     /\ call.arg.scenario = "celebrity" /\ call.arg.characters # <<>>) =>
    call.out.units = call.arg.characters

\* C28: in non-interactive generation, when --count is omitted the
\* documented default is applied and generation proceeds: portrait, couple
\* and family runs attempt exactly 1 image, and a celebrity run without
\* --characters attempts exactly default_image_count characters.
C28_OmittedCountDefault ==
  (call.op = "non_interactive" /\ call.done
     /\ call.arg.via = "command_generate"
     /\ call.arg.count = NoneCount /\ call.arg.characters = <<>>) =>
    /\ ~call.out.raised
    /\ Len(call.out.units) = IF call.arg.scenario = "celebrity"
                             THEN DefaultImageCount ELSE 1

\* C25: validate(path) returns false when the image cannot be decoded, when
\* width < 512 or height < 512, or (real mode) when the sharpness metric is
\* below 30; it returns true in real mode when both dimensions are at least
\* 512 and the sharpness is at least 30 (30 itself is accepted); in mock
\* mode it returns true for every input.
C25_ValidatorLimits ==
  (call.op = "validate_image" /\ call.done) =>
    LET img == call.arg.img IN
      IF call.arg.mock THEN call.out = TRUE
      ELSE /\ (~img.decodable => call.out = FALSE)
           /\ ((img.w < 512 \/ img.h < 512) => call.out = FALSE)
           /\ (img.fm < 30 => call.out = FALSE)
           /\ ((img.decodable /\ img.w >= 512 /\ img.h >= 512
                  /\ img.fm >= 30) => call.out = TRUE)

\* real mode has accepted an image of exactly 512 x 512 with sharpness 30
C25_Witness ==
  /\ call.op = "validate_image" /\ call.done /\ ~call.arg.mock
  /\ call.arg.img = [decodable |-> TRUE, w |-> 512, h |-> 512, fm |-> 30]
  /\ call.out = TRUE

\* C30: supplying more reference photos than a scenario's maximum never
\* aborts the run: the first max_count photos are used and generation
\* proceeds with them, as the warning message states, in every handler that
\* accepts a photo list.
C30_TooManyPhotosProceeds ==
  (call.op = "handle_photos" /\ call.done /\ call.arg.exist
     /\ Len(call.arg.photo_paths) > photo_limits(call.arg.handler).max) =>
    /\ call.out.proceeds
    /\ call.out.photos = Take(call.arg.photo_paths,
                              photo_limits(call.arg.handler).max)

\* C29: in the interactive celebrity wizard, the number of generation
\* requests issued in one run never exceeds 10, whatever character selection
\* and count the user enters.
C29_WizardAtMostTen ==
  (call.op = "wizard" /\ call.done) =>
    Len(call.out.units) <= MaxEnteredCount

\* C26: when two orchestrator instances run concurrently against the same
\* state file there is no locking or merging: after both finish, the
\* persisted document is exactly the in-memory state of whichever instance
\* saved last (so that images recorded by the other instance can be missing
\* from generated_images).
C26_LastWriterWins ==
  (\A p \in Instances : inst[p].pc = "done") =>
    disk = json_dump(inst[saver].mem)

====
